---- MODULE Spec2Model ----
(***************************************************************************)
(* Model of terraform-provider-stateful (stateful/resource_stateful.go).   *)
(*                                                                         *)
(* The provider registers two resource variants (stateful_string and       *)
(* stateful_map) that share four lifecycle handlers and one CustomizeDiff  *)
(* handler.  The handlers keep no state of their own: the host hands each  *)
(* call a ResourceData / ResourceDiff object and persists what comes back. *)
(* The model therefore has the handlers as operators over such objects,    *)
(* and the host as the actions that build the objects, call the handlers   *)
(* and store the returned record.                                          *)
(*                                                                         *)
(* Assumptions about the libraries the code calls:                         *)
(*   - uuid.NewV4() returns a token no earlier call returned;              *)
(*   - SHA256 is collision free (the digest is modelled as an injective    *)
(*     tag around the hashed bytes);                                       *)
(*   - the host stores no record for a ResourceData without an id, calls   *)
(*     Create only for an instance without an id, and drops the record     *)
(*     once Delete returned without an error;                              *)
(*   - when the host works through a configuration (SpecSteps), it plans   *)
(*     before it applies, calls Create or Update with the values it        *)
(*     planned, and calls Update only for a plan that is not empty.        *)
(***************************************************************************)
EXTENDS Integers, Sequences, FiniteSets, TLC

VARIABLES
    state,        \* per resource instance: the record the host persists
    plan,         \* the pending plan: the last diffResource call, its inputs and marks
    lastOp,       \* the last handler call: which, on which instance, what it returned
    uuidCounter,  \* how many tokens uuid.NewV4 has handed out
    minted,       \* the ids the Create calls assigned, in order
    probe         \* a handler or getSHA256 applied to chosen arguments, with its result;
                  \* under SpecSteps, the configuration the host works from

vars == <<state, plan, lastOp, uuidCounter, minted, probe>>

\* Bound of the model: Create calls (tokens drawn from uuid.NewV4) per behaviour.
MaxCreates == 2

FieldDesired == "desired"
FieldReal == "real"
FieldHash == "hash"

\* One instance of each resource variant.
Inst == {"stateful_string", "stateful_map"}

resourceStatefulString == "TypeString"
resourceStatefulMap == "TypeMap"

\* The schema type of "desired" and "real" for a variant.
resourceFactory(i) ==
    IF i = "stateful_string" THEN resourceStatefulString ELSE resourceStatefulMap

-----------------------------------------------------------------------------
(* Values: what d.Get hands the handlers as interface{}.                   *)

Str(s) == [kind |-> "string", s |-> s]
Num(s) == [kind |-> "number", s |-> s]
\* A Go map[string]interface{}: a set of <<key, value>> pairs with distinct keys
\* (no insertion order).
MapOf(m) == [kind |-> "map", m |-> m]
\* A value encoding/json cannot serialize (a channel, a function).
Unsupported == [kind |-> "chan"]
\* No value: the attribute is not set.
Absent == [kind |-> "absent"]

\* The keys used by the map values below, in the byte order encoding/json sorts them.
SortedKeys == <<"baz", "foo">>

StringValues == {Str(""), Str("foo"), Str("bar")}

MapValues ==
    { MapOf({}),
      MapOf({<<"foo", Str("bar")>>}),
      MapOf({<<"foo", Str("wrong")>>}),
      MapOf({<<"foo", Str("bar")>>, <<"baz", Str("qux")>>}) }

\* The values the schema admits for a variant's "desired" and "real".
TypedValues(i) ==
    IF resourceFactory(i) = resourceStatefulString THEN StringValues ELSE MapValues

\* The zero value of a variant's type: what Get returns for an attribute without a value.
ZeroValue(i) ==
    IF resourceFactory(i) = resourceStatefulString THEN Str("") ELSE MapOf({})

\* Whether v has the shape the schema of variant i declares: a string, or a map whose
\* values are all strings.
WellShaped(i, v) ==
    IF resourceFactory(i) = resourceStatefulString
    THEN v.kind = "string"
    ELSE v.kind = "map" /\ \A e \in v.m : e[2].kind = "string"

NoId == <<>>
NoHash == <<>>
NoError == "nil"

-----------------------------------------------------------------------------
(* Fingerprint: getSHA256 and the JSON serialization it hashes.            *)

Quote == "\""

\* json.Marshal of a scalar: a string is quoted, a number is written as it is, anything
\* else is an error with no bytes.
marshalScalar(v) ==
    CASE v.kind = "string" -> [bytes |-> <<Quote, v.s, Quote>>, err |-> NoError]
      [] v.kind = "number" -> [bytes |-> <<v.s>>, err |-> NoError]
      [] OTHER -> [bytes |-> <<>>, err |-> "json: unsupported type"]

RECURSIVE marshalEntries(_, _, _)
\* The entries of map m whose keys are SortedKeys[k..], in that order, comma separated.
marshalEntries(m, k, first) ==
    IF k > Len(SortedKeys) THEN [bytes |-> <<>>, err |-> NoError]
    ELSE LET here == {e \in m : e[1] = SortedKeys[k]}
         IN IF here = {} THEN marshalEntries(m, k + 1, first)
            ELSE LET e == CHOOSE x \in here : TRUE
                     val == marshalScalar(e[2])
                     rest == marshalEntries(m, k + 1, FALSE)
                     sep == IF first THEN <<>> ELSE <<",">>
                 IN IF val.err # NoError THEN [bytes |-> <<>>, err |-> val.err]
                    ELSE IF rest.err # NoError THEN [bytes |-> <<>>, err |-> rest.err]
                    ELSE [bytes |-> sep \o <<Quote, e[1], Quote, ":">> \o val.bytes \o rest.bytes,
                          err |-> NoError]

\* json.Marshal(o): the bytes and the error.  A map is written with its keys sorted.
jsonMarshal(o) ==
    IF o.kind = "map"
    THEN LET body == marshalEntries(o.m, 1, TRUE)
         IN IF body.err # NoError THEN [bytes |-> <<>>, err |-> body.err]
            ELSE [bytes |-> <<"{">> \o body.bytes \o <<"}">>, err |-> NoError]
    ELSE marshalScalar(o)

\* sha256 of the bytes, rendered in hex.
Sum256Hex(bytes) == <<"sha256", bytes>>

\* The error of json.Marshal is dropped: whatever bytes came back are hashed.
getSHA256(o) ==
    LET serialized == jsonMarshal(o).bytes
    IN Sum256Hex(serialized)

(* The same with the order made explicit in which the runtime hands out the keys of a  *)
(* Go map (reflect's MapKeys: any order): iter is a sequence of the map's keys.        *)

\* The key orders the runtime may produce for o: every permutation of a map's keys.
KeyOrders(o) ==
    IF o.kind # "map" THEN {<<>>}
    ELSE LET keys == {e[1] : e \in o.m}
         IN {iter \in [1..Cardinality(keys) -> keys] :
                 \A a, b \in DOMAIN iter : a # b => iter[a] # iter[b]}

\* encoding/json sorts the keys before it writes the entries.
sortKeys(iter) ==
    SelectSeq(SortedKeys, LAMBDA k : \E j \in DOMAIN iter : iter[j] = k)

RECURSIVE marshalKeys(_, _, _)
\* The entries of map m for the keys of the sequence keys, in that order, comma separated.
marshalKeys(m, keys, first) ==
    IF keys = <<>> THEN [bytes |-> <<>>, err |-> NoError]
    ELSE LET e == CHOOSE x \in m : x[1] = Head(keys)
             val == marshalScalar(e[2])
             rest == marshalKeys(m, Tail(keys), FALSE)
             sep == IF first THEN <<>> ELSE <<",">>
         IN IF val.err # NoError THEN [bytes |-> <<>>, err |-> val.err]
            ELSE IF rest.err # NoError THEN [bytes |-> <<>>, err |-> rest.err]
            ELSE [bytes |-> sep \o <<Quote, e[1], Quote, ":">> \o val.bytes \o rest.bytes,
                  err |-> NoError]

jsonMarshalIn(o, iter) ==
    IF o.kind = "map"
    THEN LET body == marshalKeys(o.m, sortKeys(iter), TRUE)
         IN IF body.err # NoError THEN [bytes |-> <<>>, err |-> body.err]
            ELSE [bytes |-> <<"{">> \o body.bytes \o <<"}">>, err |-> NoError]
    ELSE marshalScalar(o)

\* Mutant: the entries are hashed in the order the runtime hands them out, unsorted.
getSHA256In_Unsorted(o, iter) ==
    IF o.kind = "map"
    THEN Sum256Hex(<<"{">> \o marshalKeys(o.m, iter, TRUE).bytes \o <<"}">>)
    ELSE Sum256Hex(marshalScalar(o).bytes)

getSHA256In(o, iter) ==
    LET serialized == jsonMarshalIn(o, iter).bytes
    IN Sum256Hex(serialized)

-----------------------------------------------------------------------------
(* schema.ResourceData: a record [id, desired, real, hash].                *)

Get(d, key) == d[key]
Set(d, key, value) == [d EXCEPT ![key] = value]
SetId(d, v) == [d EXCEPT !.id = v]

\* Mutant: the fingerprint is taken of the real value, not the desired one.
getStatefulResourceFingerprint_OfReal(d) ==
    LET data == Get(d, FieldReal)
    IN getSHA256(data)

getStatefulResourceFingerprint(d) ==
    LET data == Get(d, FieldDesired)
    IN getSHA256(data)

\* Mutant: the id is derived from the content instead of drawn from uuid.NewV4.
createResource_ContentId(d, u) ==
    LET d1 == SetId(d, getStatefulResourceFingerprint(d))
        d2 == Set(d1, FieldHash, getStatefulResourceFingerprint(d1))
    IN [d |-> d2, err |-> NoError]

\* u is the token uuid.NewV4 returns to this call.
createResource(d, u) ==
    LET d1 == SetId(d, u)
        sha256hash == getStatefulResourceFingerprint(d1)
        d2 == Set(d1, FieldHash, sha256hash)
    IN [d |-> d2, err |-> NoError]

\* Mutant: Read refuses a ResourceData without an id.
readResource_ChecksIdentity(d) ==
    IF d.id = NoId
    THEN [d |-> d, err |-> "IdentityMissing"]
    ELSE [d |-> Set(d, FieldHash, getStatefulResourceFingerprint(d)), err |-> NoError]

\* Mutant: Read hashes the real value instead of the desired one.
readResource_HashesReal(d) ==
    [d |-> Set(d, FieldHash, getSHA256(Get(d, FieldReal))), err |-> NoError]

readResource(d) ==
    LET sha256hash == getStatefulResourceFingerprint(d)
        d1 == Set(d, FieldHash, sha256hash)
    IN [d |-> d1, err |-> NoError]

\* Mutant: Update returns without writing the hash.
updateResource_KeepsHash(d) == [d |-> d, err |-> NoError]

\* Mutant: Update writes the hash and clears the id.
updateResource_ClearsId(d) ==
    [d |-> SetId(Set(d, FieldHash, getStatefulResourceFingerprint(d)), NoId), err |-> NoError]

\* Mutant: Update fingerprints the real value it was handed.
updateResource_HashesReal(d) ==
    [d |-> Set(d, FieldHash, getSHA256(Get(d, FieldReal))), err |-> NoError]

\* Mutant: Update also records desired as the real value.
updateResource_SetsReal(d) ==
    LET d1 == Set(d, FieldHash, getStatefulResourceFingerprint(d))
    IN [d |-> Set(d1, FieldReal, Get(d, FieldDesired)), err |-> NoError]

updateResource(d) ==
    LET sha256hash == getStatefulResourceFingerprint(d)
        d1 == Set(d, FieldHash, sha256hash)
    IN [d |-> d1, err |-> NoError]

\* Mutant: Delete is refused.
deleteResource_Fails(d) == [d |-> d, err |-> "delete is not supported"]

deleteResource(d) == [d |-> d, err |-> NoError]

-----------------------------------------------------------------------------
(* schema.ResourceDiff: [desiredOld, desired, real, diff], diff holding    *)
(* the mark of "real" and of "hash": keep (the host's own diff, untouched),*)
(* clear (Clear) or recompute (SetNewComputed).                            *)

\* Mutant: for maps, every entry of a must be in b, and b may hold more.
DeepEqual_Subset(a, b) ==
    a.kind = b.kind /\ (IF a.kind = "map" THEN a.m \subseteq b.m ELSE a = b)

\* reflect.DeepEqual on the values Get returns.
DeepEqual(a, b) == a.kind = b.kind /\ a = b

\* Mutant: GetOk instead of GetOkExists: a zero value counts as not set.
GetOkExists_NonZero(rd, i) ==
    IF rd.real.kind = "absent" \/ rd.real = ZeroValue(i)
    THEN [value |-> ZeroValue(i), exists |-> FALSE]
    ELSE [value |-> rd.real, exists |-> TRUE]

\* GetOkExists(FieldReal): the value and whether it is set.
GetOkExists(rd, i) ==
    IF rd.real.kind = "absent"
    THEN [value |-> ZeroValue(i), exists |-> FALSE]
    ELSE [value |-> rd.real, exists |-> TRUE]

\* HasChange(FieldDesired): the old and the new value differ.
HasChange(rd) == ~DeepEqual(rd.desiredOld, rd.desired)

Clear(rd, key) == [rd EXCEPT !.diff[key] = "clear"]
SetNewComputed(rd, key) == [rd EXCEPT !.diff[key] = "recompute"]

\* Mutant: the hash is marked whenever real is set, equal to desired or not.
diffResource_AlwaysHash(rd, i) ==
    LET got == GetOkExists(rd, i)
        rd1 == IF got.exists
               THEN IF DeepEqual(Get(rd, FieldDesired), got.value)
                    THEN SetNewComputed(Clear(rd, FieldReal), FieldHash)
                    ELSE SetNewComputed(SetNewComputed(rd, FieldReal), FieldHash)
               ELSE Clear(rd, FieldReal)
        rd2 == IF HasChange(rd1) THEN SetNewComputed(rd1, FieldHash) ELSE rd1
    IN [d |-> rd2, err |-> NoError]

\* Mutant: on drift only real is marked, the hash is not.
diffResource_DriftRealOnly(rd, i) ==
    LET got == GetOkExists(rd, i)
        rd1 == IF got.exists
               THEN IF DeepEqual(Get(rd, FieldDesired), got.value)
                    THEN Clear(rd, FieldReal)
                    ELSE SetNewComputed(rd, FieldReal)
               ELSE Clear(rd, FieldReal)
        rd2 == IF HasChange(rd1) THEN SetNewComputed(rd1, FieldHash) ELSE rd1
    IN [d |-> rd2, err |-> NoError]

\* Mutant: the HasChange(FieldDesired) block is missing.
diffResource_NoHasChange(rd, i) ==
    LET got == GetOkExists(rd, i)
        rd1 == IF got.exists
               THEN IF DeepEqual(Get(rd, FieldDesired), got.value)
                    THEN Clear(rd, FieldReal)
                    ELSE SetNewComputed(SetNewComputed(rd, FieldReal), FieldHash)
               ELSE Clear(rd, FieldReal)
    IN [d |-> rd1, err |-> NoError]

\* Mutant: a real that is not set is marked recompute instead of cleared.
diffResource_UnsetRecompute(rd, i) ==
    LET got == GetOkExists(rd, i)
        rd1 == IF got.exists
               THEN IF DeepEqual(Get(rd, FieldDesired), got.value)
                    THEN Clear(rd, FieldReal)
                    ELSE SetNewComputed(SetNewComputed(rd, FieldReal), FieldHash)
               ELSE SetNewComputed(rd, FieldReal)
        rd2 == IF HasChange(rd1) THEN SetNewComputed(rd1, FieldHash) ELSE rd1
    IN [d |-> rd2, err |-> NoError]

\* Mutant: a real equal to desired is left as the host diffed it, not cleared.
diffResource_EqualKeeps(rd, i) ==
    LET got == GetOkExists(rd, i)
        rd1 == IF got.exists
               THEN IF DeepEqual(Get(rd, FieldDesired), got.value)
                    THEN rd
                    ELSE SetNewComputed(SetNewComputed(rd, FieldReal), FieldHash)
               ELSE Clear(rd, FieldReal)
        rd2 == IF HasChange(rd1) THEN SetNewComputed(rd1, FieldHash) ELSE rd1
    IN [d |-> rd2, err |-> NoError]

\* Mutant: a real that is not set is left as the host diffed it (no else branch).
diffResource_UnsetKeeps(rd, i) ==
    LET got == GetOkExists(rd, i)
        rd1 == IF got.exists
               THEN IF DeepEqual(Get(rd, FieldDesired), got.value)
                    THEN Clear(rd, FieldReal)
                    ELSE SetNewComputed(SetNewComputed(rd, FieldReal), FieldHash)
               ELSE rd
        rd2 == IF HasChange(rd1) THEN SetNewComputed(rd1, FieldHash) ELSE rd1
    IN [d |-> rd2, err |-> NoError]

\* Mutant: real is compared with the persisted desired, not the proposed one.
diffResource_ComparesPersisted(rd, i) ==
    LET got == GetOkExists(rd, i)
        rd1 == IF got.exists
               THEN IF DeepEqual(rd.desiredOld, got.value)
                    THEN Clear(rd, FieldReal)
                    ELSE SetNewComputed(SetNewComputed(rd, FieldReal), FieldHash)
               ELSE Clear(rd, FieldReal)
        rd2 == IF HasChange(rd1) THEN SetNewComputed(rd1, FieldHash) ELSE rd1
    IN [d |-> rd2, err |-> NoError]

\* Mutant: a real that differs from desired is reported only while desired changes too.
diffResource_DriftOnlyOnChange(rd, i) ==
    LET got == GetOkExists(rd, i)
        rd1 == IF got.exists
               THEN IF DeepEqual(Get(rd, FieldDesired), got.value) \/ ~HasChange(rd)
                    THEN Clear(rd, FieldReal)
                    ELSE SetNewComputed(SetNewComputed(rd, FieldReal), FieldHash)
               ELSE Clear(rd, FieldReal)
        rd2 == IF HasChange(rd1) THEN SetNewComputed(rd1, FieldHash) ELSE rd1
    IN [d |-> rd2, err |-> NoError]

diffResource(rd, i) ==
    LET desiredValue == Get(rd, FieldDesired)
        got == GetOkExists(rd, i)
        realValue == got.value
        realValueIsSet == got.exists
        rd1 == IF realValueIsSet
               THEN IF DeepEqual(desiredValue, realValue)
                    THEN Clear(rd, FieldReal)
                    ELSE SetNewComputed(SetNewComputed(rd, FieldReal), FieldHash)
               ELSE Clear(rd, FieldReal)
        rd2 == IF HasChange(rd1) THEN SetNewComputed(rd1, FieldHash) ELSE rd1
    IN [d |-> rd2, err |-> NoError]

-----------------------------------------------------------------------------
(* The host.                                                               *)

\* The record of an instance that does not exist.
EmptyRecord(i) ==
    [id |-> NoId, desired |-> ZeroValue(i), real |-> Absent, hash |-> NoHash]

\* ResourceData.State(): no record without an id.
State(i, d) == IF d.id = NoId THEN EmptyRecord(i) ELSE d

NewV4 == <<"uuid", uuidCounter + 1>>

NoPlan ==
    [inst |-> "none", desiredOld |-> Absent, desired |-> Absent, real |-> Absent,
     realIsSet |-> FALSE, realMark |-> "keep", hashMark |-> "keep"]

NoOp ==
    [op |-> "none", inst |-> "none", err |-> NoError, hadId |-> FALSE,
     desiredChanged |-> FALSE, wellTyped |-> TRUE]

\* Whether the host's inputs of a call have the shape the schema declares.
InputsWellShaped(i, desired, real) ==
    WellShaped(i, desired) /\ (real.kind = "absent" \/ WellShaped(i, real))

\* The record of a call: the handler, the instance, the error returned, whether the
\* instance had an id when called, whether the desired handed in differs from the
\* persisted one, and whether the inputs had the schema's shape.
Called(op, i, err, desired, real) ==
    [op |-> op, inst |-> i, err |-> err, hadId |-> state[i].id # NoId,
     desiredChanged |-> ~DeepEqual(state[i].desired, desired),
     wellTyped |-> InputsWellShaped(i, desired, real)]

NoProbe == [op |-> "none"]

Init ==
    /\ state = [i \in Inst |-> EmptyRecord(i)]
    /\ plan = NoPlan
    /\ lastOp = NoOp
    /\ uuidCounter = 0
    /\ minted = <<>>
    /\ probe = NoProbe

\* terraform plan: the host builds the ResourceDiff from the persisted record and the
\* proposed desired and real, and calls CustomizeDiff.
PlanDiff(i, desired, real) ==
    LET rd == [desiredOld |-> state[i].desired, desired |-> desired, real |-> real,
               diff |-> [real |-> "keep", hash |-> "keep"]]
        res == diffResource(rd, i)
    IN /\ plan' = [inst |-> i, desiredOld |-> rd.desiredOld, desired |-> desired,
                   real |-> real, realIsSet |-> GetOkExists(rd, i).exists,
                   realMark |-> res.d.diff.real, hashMark |-> res.d.diff.hash]
       /\ lastOp' = Called("PlanDiff", i, res.err, desired, real)
       /\ UNCHANGED <<state, uuidCounter, minted, probe>>

\* Apply on an instance without an id: Create.
Create(i, desired, real) ==
    /\ state[i].id = NoId
    /\ uuidCounter < MaxCreates
    /\ LET d == [EmptyRecord(i) EXCEPT !.desired = desired, !.real = real]
           res == createResource(d, NewV4)
       IN /\ state' = [state EXCEPT ![i] = IF res.err = NoError THEN State(i, res.d) ELSE @]
          /\ minted' = IF res.err = NoError /\ res.d.id # NoId
                       THEN Append(minted, res.d.id) ELSE minted
          /\ lastOp' = Called("Create", i, res.err, desired, real)
    /\ uuidCounter' = uuidCounter + 1
    /\ plan' = NoPlan
    /\ UNCHANGED probe

\* Refresh: Read on the persisted record.
Read(i) ==
    LET d == state[i]
        res == readResource(d)
    IN /\ state' = [state EXCEPT ![i] = IF res.err = NoError THEN State(i, res.d) ELSE @]
       /\ lastOp' = Called("Read", i, res.err, d.desired, d.real)
       /\ plan' = NoPlan
       /\ UNCHANGED <<uuidCounter, minted, probe>>

\* Mutant: the fingerprint lives in one place shared by all instances, so an Update of
\* one instance shows in the record of every existing instance.
Update_SharedHash(i, desired, real) ==
    LET d == [state[i] EXCEPT !.desired = desired, !.real = real]
        res == updateResource(d)
    IN /\ state' = [j \in Inst |->
                       IF j = i THEN State(i, res.d)
                       ELSE IF state[j].id # NoId
                            THEN [state[j] EXCEPT !.hash = res.d.hash] ELSE state[j]]
       /\ lastOp' = Called("Update", i, res.err, desired, real)
       /\ plan' = NoPlan
       /\ UNCHANGED <<uuidCounter, minted, probe>>

\* Apply on an existing instance: Update with the proposed desired and real.
Update(i, desired, real) ==
    LET d == [state[i] EXCEPT !.desired = desired, !.real = real]
        res == updateResource(d)
    IN /\ state' = [state EXCEPT ![i] = IF res.err = NoError THEN State(i, res.d) ELSE @]
       /\ lastOp' = Called("Update", i, res.err, desired, real)
       /\ plan' = NoPlan
       /\ UNCHANGED <<uuidCounter, minted, probe>>

\* Destroy: Delete, after which the host drops the record.
Delete(i) ==
    LET d == state[i]
        res == deleteResource(d)
    IN /\ state' = [state EXCEPT ![i] = IF res.err = NoError THEN EmptyRecord(i) ELSE @]
       /\ lastOp' = Called("Delete", i, res.err, d.desired, d.real)
       /\ plan' = NoPlan
       /\ UNCHANGED <<uuidCounter, minted, probe>>

\* What the host may supply as real: a value of the variant's type, or nothing.
Reals(i) == TypedValues(i) \cup {Absent}

Next ==
    \E i \in Inst :
        \/ \E desired \in TypedValues(i), real \in Reals(i) : PlanDiff(i, desired, real)
        \/ \E desired \in TypedValues(i), real \in Reals(i) : Create(i, desired, real)
        \/ Read(i)
        \/ \E desired \in TypedValues(i), real \in Reals(i) : Update(i, desired, real)
        \/ Delete(i)

Spec == Init /\ [][Next]_vars

\* Values outside the schema's shape: what reaches the handlers when nothing checks the
\* host's input against the schema.
IllShaped(i) ==
    IF resourceFactory(i) = resourceStatefulString
    THEN {Num("1"), Unsupported}
    ELSE {MapOf({<<"foo", Num("1")>>}), Unsupported}

UntypedDesired(i) ==
    (IF resourceFactory(i) = resourceStatefulString
     THEN {Str("foo")} ELSE {MapOf({<<"foo", Str("bar")>>})}) \cup IllShaped(i)

UntypedReal(i) == {Absent} \cup IllShaped(i)

NextUntyped ==
    \E i \in Inst :
        \/ \E desired \in UntypedDesired(i), real \in UntypedReal(i) : PlanDiff(i, desired, real)
        \/ \E desired \in UntypedDesired(i), real \in UntypedReal(i) : Create(i, desired, real)
        \/ Read(i)
        \/ \E desired \in UntypedDesired(i), real \in UntypedReal(i) : Update(i, desired, real)
        \/ Delete(i)

\* The handlers called with any value, well shaped or not.
SpecUntyped == Init /\ [][NextUntyped]_vars

-----------------------------------------------------------------------------
(* The functions on their own: getSHA256 and the handlers applied to       *)
(* arguments drawn from the values above.                                  *)

\* A value together with a key order the runtime may produce for it.
Ranged(v) == {[value |-> v, iter |-> it] : it \in KeyOrders(v)}

\* getSHA256 on two values, each under one of its key orders.
ProbeFingerprint(a, b) ==
    /\ probe' = [op |-> "getSHA256", a |-> a, b |-> b,
                 digestA |-> getSHA256In(a.value, a.iter),
                 digestB |-> getSHA256In(b.value, b.iter)]
    /\ UNCHANGED <<state, plan, lastOp, uuidCounter, minted>>

\* The ResourceData objects a handler of variant i is applied to.
ProbeData(i) ==
    [id : {NoId, <<"uuid", 1>>}, desired : TypedValues(i), real : Reals(i),
     hash : {NoHash, getSHA256(ZeroValue(i))}]

\* A lifecycle handler on a ResourceData d.
ProbeHandler(op, d) ==
    /\ probe' = [op |-> op, d |-> d,
                 out |-> CASE op = "Create" -> createResource(d, <<"uuid", 2>>)
                           [] op = "Read" -> readResource(d)
                           [] op = "Update" -> updateResource(d)
                           [] OTHER -> deleteResource(d)]
    /\ UNCHANGED <<state, plan, lastOp, uuidCounter, minted>>

NextPure ==
    \/ \E v, w \in StringValues \cup MapValues :
           \E a \in Ranged(v), b \in Ranged(w) : ProbeFingerprint(a, b)
    \/ \E i \in Inst, op \in {"Create", "Read", "Update", "Delete"} :
           \E d \in ProbeData(i) : ProbeHandler(op, d)

SpecPure == Init /\ [][NextPure]_vars

-----------------------------------------------------------------------------
(* The host working through configurations, as the steps of the acceptance *)
(* test do: a configuration names the desired and the real of an instance; *)
(* the host plans it, applies the plan (Create without an id, Update with  *)
(* one) and plans the same configuration again.                            *)

Planned == plan.inst # "none"
DesiredChanges == ~DeepEqual(plan.desired, plan.desiredOld)
RealDrifted == plan.realIsSet /\ ~DeepEqual(plan.real, plan.desired)
RealConverged == plan.realIsSet /\ DeepEqual(plan.real, plan.desired)

Configured == probe.op = "config"

\* The pending plan was computed from the configuration at hand.
PlanOfConfig ==
    /\ Configured /\ Planned /\ plan.inst = probe.inst
    /\ DeepEqual(plan.desired, probe.desired) /\ DeepEqual(plan.real, probe.real)

\* A plan with no attribute to change: desired as persisted, real cleared, hash kept.
PlanEmpty ==
    ~DesiredChanges /\ plan.realMark = "clear" /\ plan.hashMark = "keep"

\* A test step's Config: desired and real of instance i are (re)written.  For an existing
\* instance the new configuration differs from what was applied last.  existed records
\* whether the instance had an id when the configuration was written.  No plan is
\* pending and no handler has been called for the new configuration.
Configure(i, desired, real) ==
    /\ state[i].id # NoId =>
           ~(DeepEqual(desired, state[i].desired) /\ DeepEqual(real, state[i].real))
    /\ probe' = [op |-> "config", inst |-> i, desired |-> desired, real |-> real,
                 existed |-> state[i].id # NoId]
    /\ plan' = NoPlan
    /\ lastOp' = NoOp
    /\ UNCHANGED <<state, uuidCounter, minted>>

NextSteps ==
    \/ \E i \in Inst : \E desired \in TypedValues(i), real \in Reals(i) :
           Configure(i, desired, real)
    \/ Configured /\ PlanDiff(probe.inst, probe.desired, probe.real)
    \/ PlanOfConfig /\ Create(probe.inst, probe.desired, probe.real)
    \/ PlanOfConfig /\ state[probe.inst].id # NoId /\ ~PlanEmpty
           /\ Update(probe.inst, probe.desired, probe.real)
    \/ Configured /\ Read(probe.inst)

SpecSteps == Init /\ [][NextSteps]_vars

-----------------------------------------------------------------------------
(* Properties.                                                             *)

\* C1: in every reachable state, the hash persisted for an instance is the SHA256-of-JSON
\* digest of the desired value persisted in the same record.
C1_HashIsDigestOfDesired ==
    \A i \in Inst : state[i].id # NoId => state[i].hash = getSHA256(state[i].desired)

\* An Update of an existing instance has just replaced its desired by a different one.
C1_Witness ==
    /\ lastOp.op = "Update" /\ lastOp.hadId /\ lastOp.desiredChanged
    /\ state[lastOp.inst].id # NoId

\* C2: the plan marks the hash recompute only if the proposed desired differs from the
\* persisted one or a real that is set differs from the proposed desired.
C2_HashMarkedOnlyOnChangeOrDrift ==
    (Planned /\ plan.hashMark = "recompute") => (DesiredChanges \/ RealDrifted)

\* A plan of an existing instance with desired unchanged and real equal to it: hash kept.
C2_Witness ==
    /\ Planned /\ state[plan.inst].id # NoId
    /\ ~DesiredChanges /\ RealConverged /\ plan.hashMark = "keep"

\* C3: when real is set and differs from desired, the plan marks real and the hash
\* recompute, also when desired itself is unchanged.
C3_DriftMarksRealAndHash ==
    (Planned /\ RealDrifted) => (plan.realMark = "recompute" /\ plan.hashMark = "recompute")

\* A plan with drift and desired unchanged.
C3_Witness ==
    /\ Planned /\ state[plan.inst].id # NoId
    /\ RealDrifted /\ ~DesiredChanges /\ plan.hashMark = "recompute"

\* C4: whenever the proposed desired differs from the persisted one, the plan marks the
\* hash recompute, whatever the real branch.
C4_DesiredChangeMarksHash ==
    (Planned /\ DesiredChanges) => plan.hashMark = "recompute"

\* A plan where desired changes and real is set and equal to the proposed desired: only
\* the HasChange block marks the hash.
C4_Witness ==
    /\ Planned /\ state[plan.inst].id # NoId
    /\ DesiredChanges /\ RealConverged /\ plan.hashMark = "recompute"

\* C5 as stated: when real is not set, the plan marks real recompute.
C5_UnsetRealRecomputed ==
    (Planned /\ ~plan.realIsSet) => plan.realMark = "recompute"

\* C5 amended: when real is not set, the plan clears real, for every proposed and
\* persisted desired.
C5_UnsetRealCleared ==
    (Planned /\ ~plan.realIsSet) => plan.realMark = "clear"

\* A plan without a real in which desired changes.
C5_Witness ==
    /\ Planned /\ ~plan.realIsSet /\ DesiredChanges /\ plan.realMark = "clear"

\* C6: when real is set and equal to desired, the plan clears real, and if desired is
\* unchanged too it keeps the hash: nothing changes.
C6_ConvergedClearsReal ==
    (Planned /\ RealConverged) =>
        /\ plan.realMark = "clear"
        /\ ~DesiredChanges => plan.hashMark = "keep"

\* A plan of a map instance with real equal to a non-empty desired and desired unchanged.
C6_Witness ==
    /\ Planned /\ plan.inst = "stateful_map" /\ state[plan.inst].id # NoId
    /\ RealConverged /\ ~DesiredChanges /\ plan.desired # ZeroValue(plan.inst)
    /\ plan.realMark = "clear" /\ plan.hashMark = "keep"

\* C7: a Read or an Update of an instance that has an id leaves the id as it is.
C7_IdentityStable ==
    [][\A i \in Inst :
          (state[i].id # NoId /\ lastOp'.inst = i /\ lastOp'.op \in {"Read", "Update"})
              => state'[i].id = state[i].id]_vars

\* An Update that changed desired has run on an instance, which still has the id that
\* a Create minted.
C7_Witness ==
    /\ lastOp.op = "Update" /\ lastOp.hadId /\ lastOp.desiredChanged
    /\ \E k \in DOMAIN minted : state[lastOp.inst].id = minted[k]

\* C8: no two Create calls mint the same id, whether or not the earlier instance still exists.
C8_IdentitiesNeverReused ==
    \A a, b \in DOMAIN minted : a # b => minted[a] # minted[b]

\* A Create has just run after an instance created earlier was deleted.
C8_Witness ==
    /\ lastOp.op = "Create" /\ Len(minted) >= 2
    /\ \E k \in DOMAIN minted : \A i \in Inst : state[i].id # minted[k]

OnAbsentInstance ==
    lastOp.op \in {"Read", "Update", "Delete"} /\ ~lastOp.hadId

\* C9 as stated: Read, Update and Delete on an instance without an id fail with IdentityMissing.
C9_AbsentInstanceRejected ==
    OnAbsentInstance => lastOp.err = "IdentityMissing"

\* C9 amended: Read, Update and Delete on an instance without an id return no error, and
\* leave the instance without id and without record.
C9_AbsentInstanceAccepted ==
    OnAbsentInstance =>
        (lastOp.err = NoError /\ state[lastOp.inst] = EmptyRecord(lastOp.inst))

\* A Read has run on an instance that was deleted before.
C9_Witness ==
    /\ lastOp.op = "Read" /\ ~lastOp.hadId /\ Len(minted) >= 1
    /\ \A i \in Inst : state[i].id = NoId

\* C10: a call whose desired or real is outside the schema's shape returns an error, and
\* such a Create leaves the instance without id and without hash.
C10_IllShapedAborts ==
    (lastOp.op \in {"Create", "Update"} /\ ~lastOp.wellTyped) =>
        /\ lastOp.err # NoError
        /\ lastOp.op = "Create" =>
               (state[lastOp.inst].id = NoId /\ state[lastOp.inst].hash = NoHash)

\* C11: with inputs of the schema's shape every handler call returns without an error,
\* and the JSON serialization of every persisted desired succeeds.
C11_HandlersTotal ==
    /\ (lastOp.op # "none" /\ lastOp.wellTyped) => lastOp.err = NoError
    /\ \A i \in Inst : jsonMarshal(state[i].desired).err = NoError

\* A Delete has returned on an instance that existed, after both instances were created.
C11_Witness ==
    /\ lastOp.op = "Delete" /\ lastOp.hadId /\ lastOp.wellTyped /\ lastOp.err = NoError
    /\ Len(minted) = 2

\* C12: a Read of an existing instance leaves the persisted hash as it was, so after a
\* Create any number of Reads keep the hash that Create stored.
C12_ReadKeepsHash ==
    [][\A i \in Inst :
          (state[i].id # NoId /\ lastOp'.inst = i /\ lastOp'.op = "Read")
              => state'[i].hash = state[i].hash]_vars

\* A Read has run on an existing instance whose real differs from its non-empty desired.
C12_Witness ==
    /\ lastOp.op = "Read" /\ lastOp.hadId
    /\ state[lastOp.inst].desired # ZeroValue(lastOp.inst)
    /\ state[lastOp.inst].real.kind # "absent"
    /\ ~DeepEqual(state[lastOp.inst].real, state[lastOp.inst].desired)
    /\ state[lastOp.inst].hash = getSHA256(state[lastOp.inst].desired)

\* C13: structurally equal values have equal fingerprints: the same string, or maps with
\* the same pairs whatever the order of their keys; and the fingerprint does not depend
\* on the key order at all.
C13_FingerprintCanonical ==
    probe.op = "getSHA256" =>
        /\ probe.digestA = getSHA256(probe.a.value)
        /\ DeepEqual(probe.a.value, probe.b.value) => probe.digestA = probe.digestB

\* The same two-key map was hashed under two different key orders.
C13_Witness ==
    /\ probe.op = "getSHA256"
    /\ DeepEqual(probe.a.value, probe.b.value) /\ probe.a.iter # probe.b.iter
    /\ probe.digestA = probe.digestB

\* C14: an Update of an existing instance that changes desired changes the persisted
\* hash: different desired values have different fingerprints.
C14_ChangedDesiredChangesHash ==
    [][\A i \in Inst :
          (state[i].id # NoId /\ lastOp'.inst = i /\ lastOp'.op = "Update"
             /\ ~DeepEqual(state'[i].desired, state[i].desired))
              => state'[i].hash # state[i].hash]_vars

\* An Update has changed the desired of the map instance while its real stayed absent.
C14_Witness ==
    /\ lastOp.op = "Update" /\ lastOp.inst = "stateful_map"
    /\ lastOp.hadId /\ lastOp.desiredChanged
    /\ state[lastOp.inst].real.kind = "absent"
    /\ state[lastOp.inst].hash = getSHA256(state[lastOp.inst].desired)

\* C15: the plan's mark of real is always clear or recompute, never left as the host
\* diffed it.
C15_RealNeverDiffedByHost ==
    Planned => plan.realMark \in {"clear", "recompute"}

\* A plan in which real is not set, and one could expect the host's own diff to stay.
C15_Witness ==
    /\ Planned /\ state[plan.inst].id # NoId /\ ~plan.realIsSet
    /\ plan.realMark \in {"clear", "recompute"}

\* C16: a call on one instance leaves the record of every other instance as it was, and
\* a plan changes no record.
C16_InstancesIndependent ==
    [][/\ \A j \in Inst : lastOp'.inst # j => state'[j] = state[j]
       /\ lastOp'.op = "PlanDiff" => state' = state]_vars

\* Both instances exist and an Update has just changed the desired of the string instance.
C16_Witness ==
    /\ \A i \in Inst : state[i].id # NoId
    /\ lastOp.op = "Update" /\ lastOp.inst = "stateful_string" /\ lastOp.desiredChanged
    /\ state["stateful_map"].desired # ZeroValue("stateful_map")
    /\ state["stateful_map"].hash = getSHA256(state["stateful_map"].desired)

\* C17: Create, Read and Update return the desired and the real they were handed: Read
\* and Update write the hash only, Create the id and the hash only.
C17_HandlersKeepDesiredAndReal ==
    probe.op \in {"Create", "Read", "Update"} =>
        /\ DeepEqual(probe.out.d.desired, probe.d.desired)
        /\ DeepEqual(probe.out.d.real, probe.d.real)
        /\ probe.op \in {"Read", "Update"} => probe.out.d.id = probe.d.id

\* Update was applied to an existing record whose real is absent and whose hash is stale.
C17_Witness ==
    /\ probe.op = "Update" /\ probe.d.id # NoId
    /\ probe.d.real.kind = "absent" /\ probe.out.d.real.kind = "absent"
    /\ probe.out.d.hash # probe.d.hash

\* C18: when desired is edited and the set real still equals the persisted desired, the
\* plan marks real and the hash recompute: real is compared with the proposed desired.
C18_DriftAgainstProposedDesired ==
    (Planned /\ DesiredChanges /\ plan.realIsSet /\ DeepEqual(plan.real, plan.desiredOld))
        => (plan.realMark = "recompute" /\ plan.hashMark = "recompute")

\* A plan of an existing instance whose desired is edited while real equals the old desired.
C18_Witness ==
    /\ Planned /\ state[plan.inst].id # NoId
    /\ DesiredChanges /\ plan.realIsSet /\ DeepEqual(plan.real, plan.desiredOld)
    /\ plan.desiredOld # ZeroValue(plan.inst)
    /\ plan.realMark = "recompute"

EmptyRealSupplied ==
    /\ Planned /\ plan.inst = "stateful_string"
    /\ plan.real.kind = "string" /\ plan.real.s = ""
    /\ plan.desired.s # ""

\* C19: an empty string supplied as real counts as set: with a non-empty desired the plan
\* marks real and the hash recompute.
C19_EmptyRealIsDrift ==
    EmptyRealSupplied =>
        (plan.realIsSet /\ plan.realMark = "recompute" /\ plan.hashMark = "recompute")

\* A plan of an existing string instance with desired unchanged and real the empty string.
C19_Witness ==
    /\ EmptyRealSupplied /\ state[plan.inst].id # NoId /\ ~DesiredChanges
    /\ plan.hashMark = "recompute"

KeysOf(v) == {e[1] : e \in v.m}
ValueAt(v, k) == (CHOOSE e \in v.m : e[1] = k)[2]
SameEntries(a, b) ==
    KeysOf(a) = KeysOf(b) /\ \A k \in KeysOf(a) : ValueAt(a, k).s = ValueAt(b, k).s

\* C20: for maps the plan clears real only if real and desired have the same keys with
\* the same values; an extra key, a missing key or another value marks real and the hash
\* recompute.
C20_MapEqualityExact ==
    (Planned /\ plan.inst = "stateful_map" /\ plan.realIsSet) =>
        IF SameEntries(plan.real, plan.desired)
        THEN plan.realMark = "clear"
        ELSE plan.realMark = "recompute" /\ plan.hashMark = "recompute"

\* A plan with desired unchanged whose real holds every entry of desired and one more key.
C20_Witness ==
    /\ Planned /\ plan.inst = "stateful_map" /\ plan.realIsSet /\ ~DesiredChanges
    /\ plan.desired.m # {} /\ plan.desired.m \subseteq plan.real.m
    /\ KeysOf(plan.real) # KeysOf(plan.desired)
    /\ plan.realMark = "recompute" /\ plan.hashMark = "recompute"

\* The configuration at hand supplies a real that is set and differs from its desired.
DriftConfigured ==
    Configured /\ probe.real.kind # "absent" /\ ~DeepEqual(probe.real, probe.desired)

\* C21: while the host keeps the same configuration, whose real is set and differs from
\* desired, every PlanDiff step marks real and the hash recompute, also after an Update
\* has persisted that desired; and a PlanDiff of a configuration with a real that is set
\* clears real and keeps the hash only if real equals desired and desired is as persisted.
C21_DriftReportedUntilConverged ==
    [][(Configured /\ probe' = probe /\ lastOp'.op = "PlanDiff") =>
          /\ DriftConfigured =>
                 (plan'.realMark = "recompute" /\ plan'.hashMark = "recompute")
          /\ (probe.real.kind # "absent"
                /\ plan'.realMark = "clear" /\ plan'.hashMark = "keep") =>
                 /\ DeepEqual(probe.real, probe.desired)
                 /\ DeepEqual(probe.desired, state[probe.inst].desired)]_vars

\* A configuration written for an existing instance, with real set and different from
\* desired, was applied by an Update and then planned again: the record holds the
\* configuration's desired and real, and the plan still marks real and the hash.
C21_Witness ==
    /\ DriftConfigured /\ probe.existed /\ PlanOfConfig /\ lastOp.op = "PlanDiff"
    /\ state[probe.inst].id # NoId
    /\ DeepEqual(state[probe.inst].desired, probe.desired)
    /\ DeepEqual(state[probe.inst].real, probe.real)
    /\ ~DesiredChanges
    /\ plan.realMark = "recompute" /\ plan.hashMark = "recompute"

\* C22: when the pending plan of an existing instance marks the hash recompute while
\* desired is as persisted (real is set and differs from desired), the Update that
\* applies the planned desired stores the hash that was persisted before it.
C22_DriftUpdateKeepsHash ==
    [][\A i \in Inst :
          (/\ Planned /\ plan.inst = i /\ state[i].id # NoId
           /\ plan.hashMark = "recompute" /\ ~DesiredChanges /\ RealDrifted
           /\ lastOp'.op = "Update" /\ lastOp'.inst = i
           /\ DeepEqual(state'[i].desired, plan.desired))
              => state'[i].hash = state[i].hash]_vars

\* An Update has applied a configuration whose desired is the persisted one and whose
\* real is set and differs from it: only the marks of the plan made the host call it.
C22_Witness ==
    /\ lastOp.op = "Update" /\ lastOp.hadId /\ ~lastOp.desiredChanged
    /\ DriftConfigured /\ probe.existed /\ probe.inst = lastOp.inst
    /\ DeepEqual(state[lastOp.inst].desired, probe.desired)
    /\ DeepEqual(state[lastOp.inst].real, probe.real)
    /\ state[lastOp.inst].desired # ZeroValue(lastOp.inst)
    /\ state[lastOp.inst].hash = getSHA256(state[lastOp.inst].desired)

====
